---- MODULE Spec2Model ----
(***************************************************************************)
(* module-default-device-restore: persists the default sink and source    *)
(* names across restarts, saving them at most DEFAULT_SAVE_INTERVAL        *)
(* seconds after the first unsaved change.                                 *)
(*                                                                         *)
(* One action per entry point or callback of the module (pa__init,         *)
(* subscribe_cb, time_cb, pa__done) plus the steps of the host around it   *)
(* (a default changes, the clock advances, the daemon restarts).  Each     *)
(* callback runs to completion: the main loop is single threaded.          *)
(***************************************************************************)
EXTENDS Integers, Sequences, FiniteSets

\* ---- bounds of the model ------------------------------------------------
MaxBurst == 2       \* server events posted and not yet covered by a save() call
MaxDone == 2        \* calls of pa__done that reach its body in one run

\* ---- program constants --------------------------------------------------
DEFAULT_SAVE_INTERVAL == 5
LnSize == 256       \* char ln[256]

Class == {"sink", "source"}

\* A name is a string, modelled as a sequence of characters; NULL is the
\* null pointer, which is no string.
NULL == <<"NULL">>
Names == {<<"a">>, <<"a", "b">>}
MaybeName == Names \cup {NULL}

\* A slot file: absent, or a sequence of characters.
NoFile == [exists |-> FALSE, data |-> <<>>]
File(d) == [exists |-> TRUE, data |-> d]

VARIABLES
    userdata,       \* m->userdata: "null", "live" (allocated), "freed" (dangling);
                    \* "gone" while no daemon process exists
    init_ret,       \* what pa__init returned in this run: "none", "ok", "fail"
    modified,       \* u->modified
    time_event,     \* u->time_event # NULL
    subscription,   \* u->subscription # NULL
    filename,       \* u->sink_filename, u->source_filename: "null", "set", "freed"
    due_in,         \* seconds from now to the time the pending time event was set for
    timers,         \* time events of this module alive in the main loop
    subscribers,    \* subscriptions of this module alive in the core
    queued,         \* server events queued for the subscription, not yet delivered
    default_name,   \* core->default_sink_name, core->default_source_name
    registry,       \* the names pa_namereg_get finds, per class
    files,          \* the two slot files
    io,             \* the file operations of the last step
    burst,          \* change events delivered since the last save() call
    flushes,        \* save() calls since the last change event
    stale,          \* classes with a change event seen and no write of the slot since
    frees,          \* per resource: times pa__done released it in this run
    since_write     \* per class: seconds, at least, since the slot was last written
                    \* in this run, counted up to DEFAULT_SAVE_INTERVAL; or NeverWritten

vars == <<userdata, init_ret, modified, time_event, subscription, filename, due_in,
          timers, subscribers, queued, default_name, registry, files, io,
          burst, flushes, stale, frees, since_write>>

Resource == {"subscription", "time_event", "userdata"}

\* since_write of a slot this run has not written.
NeverWritten == DEFAULT_SAVE_INTERVAL + 1

\* io: the slots the step opened for reading, whether save() ran past its
\* guard, the slots it wrote, the slots whose fopen failed (other than with
\* ENOENT), the change events the save() covered.
NoIO == [opened |-> {}, saved |-> FALSE, wrote |-> {}, failed |-> {}, events |-> 0,
         rewrote |-> {}, calls |-> <<>>]

\* ---- string and file helpers ---------------------------------------------

\* pa_strempty(n): "" for the null pointer
pa_strempty(n) == IF n = NULL THEN <<>> ELSE n

\* fprintf(f, "%s\n", s)
Fprintf(s) == s \o <<"\n">>

\* fgets(ln, size, f) on a freshly opened file: at most size-1 characters,
\* up to and including the first newline.
Fgets(d, size) ==
    LET nl == {i \in 1..Len(d) : d[i] = "\n"}
        upto == IF nl = {} THEN Len(d)
                ELSE CHOOSE i \in nl : \A j \in nl : i <= j
        n == IF upto < size - 1 THEN upto ELSE size - 1
    IN SubSeq(d, 1, n)

\* pa_strip_nl(s): cut at the first '\r' or '\n'
pa_strip_nl(s) ==
    LET e == {i \in 1..Len(s) : s[i] \in {"\n", "\r"}}
    IN IF e = {} THEN s
       ELSE SubSeq(s, 1, (CHOOSE i \in e : \A j \in e : i <= j) - 1)

\* (mutant of ReadLine: the newline is left on the line)
ReadLine_nostrip(d) == Fgets(d, LnSize - 1)

\* The line load() works with after fgets and pa_strip_nl.
ReadLine(d) == pa_strip_nl(Fgets(d, LnSize - 1))

\* ---- the core's event queue ------------------------------------------------
\* n server events are posted while the module has subs subscriptions: each
\* is queued for a subscription that exists when it is posted.  q is the
\* number queued before.
pa_subscription_post(q, subs, n) == IF subs > 0 THEN q + n ELSE q

\* ---- load(), one class of it --------------------------------------------
\* rd is what fopen(filename, "r") does on a file that exists: "ok", or "err"
\* for a failure other than ENOENT; on a file that does not exist fopen fails
\* with ENOENT.  The result: whether fopen was called on the slot, whether it
\* failed other than with ENOENT, and the class's default after load (set by
\* pa_namereg_set_default when the line names a registered device).
\* (mutant of load_slot: the saved name is set without asking the registry)
load_slot_nocheck(c, rd) ==
    IF files[c].exists /\ rd = "ok"
    THEN LET ln == ReadLine(files[c].data)
         IN [opened |-> TRUE, failed |-> FALSE,
             name |-> IF ln = <<>> THEN NULL ELSE ln]
    ELSE [opened |-> TRUE, failed |-> files[c].exists, name |-> NULL]

\* (mutant of load_slot: a missing file is treated as a failure)
load_slot_enoent(c, rd) ==
    IF files[c].exists /\ rd = "ok"
    THEN LET ln == ReadLine(files[c].data)
         IN [opened |-> TRUE, failed |-> FALSE,
             name |-> IF ln # <<>> /\ ln \in registry[c] THEN ln ELSE NULL]
    ELSE [opened |-> TRUE, failed |-> TRUE, name |-> NULL]

\* The branch of load() that opens the slot.
load_slot(c, rd) ==
    IF files[c].exists /\ rd = "ok"
    THEN LET ln == ReadLine(files[c].data)
         IN IF ln = <<>>
            THEN [opened |-> TRUE, failed |-> FALSE, name |-> NULL]
            ELSE IF ln \in registry[c]          \* pa_namereg_get
                 THEN [opened |-> TRUE, failed |-> FALSE, name |-> ln]
                 ELSE [opened |-> TRUE, failed |-> FALSE, name |-> NULL]
    ELSE [opened |-> TRUE, failed |-> files[c].exists, name |-> NULL]

\* (mutant of load: a configured default does not stop the restore)
load_override(c, rd) == load_slot(c, rd)

load(c, rd) ==
    IF default_name[c] # NULL
    THEN [opened |-> FALSE, failed |-> FALSE, name |-> default_name[c]]
    ELSE load_slot(c, rd)

\* ---- save() --------------------------------------------------------------
pa_namereg_get_default_name(c) == default_name[c]

\* mod is u->modified, fn[c] says u->..._filename is not NULL, res[c] is what
\* fopen(filename, "w") does: "ok" or "fail".  The result: the files and
\* u->modified after the call, whether the body ran, which slots it wrote
\* and which it failed to open.
\* (mutant of slot_text: the other class's default is written)
slot_text_swapped(c) ==
    Fprintf(pa_strempty(pa_namereg_get_default_name(
                CHOOSE d \in Class : d # c)))

\* What save() prints into the slot of class c.
slot_text(c) == Fprintf(pa_strempty(pa_namereg_get_default_name(c)))

\* (mutant of save_body: the source slot is forgotten)
save_body_sink_only(fn, res) ==
    LET ok == {c \in {"sink"} : fn[c] /\ res[c] = "ok"}
    IN [files |-> [c \in Class |-> IF c \in ok THEN File(slot_text(c)) ELSE files[c]],
        modified |-> FALSE, saved |-> TRUE,
        wrote |-> ok, failed |-> {c \in {"sink"} : fn[c] /\ res[c] = "fail"}]

\* (mutant of save_body: a failed sink write ends the save, the flag stays set)
save_body_abort(fn, res) ==
    IF fn["sink"] /\ res["sink"] = "fail"
    THEN [files |-> files, modified |-> TRUE, saved |-> TRUE,
          wrote |-> {}, failed |-> {"sink"}]
    ELSE LET ok == {c \in Class : fn[c] /\ res[c] = "ok"}
         IN [files |-> [c \in Class |-> IF c \in ok THEN File(slot_text(c)) ELSE files[c]],
             modified |-> FALSE, saved |-> TRUE,
             wrote |-> ok, failed |-> {c \in Class : fn[c] /\ res[c] = "fail"}]

\* save() past its guard.
save_body(fn, res) ==
    LET ok == {c \in Class : fn[c] /\ res[c] = "ok"}
    IN [files |-> [c \in Class |-> IF c \in ok THEN File(slot_text(c)) ELSE files[c]],
        modified |-> FALSE, saved |-> TRUE,
        wrote |-> ok, failed |-> {c \in Class : fn[c] /\ res[c] = "fail"}]

\* (mutant of save: no test of u->modified)
save_unguarded(mod, fn, res) == save_body(fn, res)

\* (mutant of save: u->modified is not cleared)
save_keepdirty(mod, fn, res) ==
    IF ~mod
    THEN [files |-> files, modified |-> mod, saved |-> FALSE,
          wrote |-> {}, failed |-> {}]
    ELSE [save_body(fn, res) EXCEPT !.modified = TRUE]

save(mod, fn, res) ==
    IF ~mod
    THEN [files |-> files, modified |-> mod, saved |-> FALSE,
          wrote |-> {}, failed |-> {}]
    ELSE save_body(fn, res)

WriteResults == [Class -> {"ok", "fail"}]
BothNames == [c \in Class |-> TRUE]

\* The bookkeeping of one save() call, made in a step that makes the calls
\* of the sequence calls.
Saved(s, calls) ==
    /\ files' = s.files
    /\ io' = [opened |-> {}, saved |-> s.saved, wrote |-> s.wrote,
              failed |-> s.failed, events |-> burst,
              rewrote |-> {c \in s.wrote : since_write[c] # NeverWritten},
              calls |-> calls]
    /\ flushes' = flushes + 1
    /\ burst' = 0
    /\ stale' = stale \ s.wrote
    /\ since_write' = [c \in Class |-> IF c \in s.wrote THEN 0 ELSE since_write[c]]

\* ---- time_cb -------------------------------------------------------------
\* (mutant of time_cb: the time event is kept when a write failed)
time_cb_keep_on_fail ==
    /\ timers > 0 /\ due_in = 0
    /\ \E res \in WriteResults :
         LET s == save(modified, BothNames, res)
         IN /\ Saved(s, <<"save", "time_free">>)
            /\ modified' = s.modified
            /\ time_event' = (time_event /\ s.failed # {})
            /\ timers' = IF time_event /\ s.failed = {} THEN timers - 1 ELSE timers
    /\ UNCHANGED <<userdata, init_ret, subscription, filename, due_in,
                   subscribers, queued, default_name, registry, frees>>

\* (mutant of time_cb: the time event is freed and save() is not called)
time_cb_nosave ==
    /\ timers > 0 /\ due_in = 0
    /\ time_event' = FALSE
    /\ timers' = IF time_event THEN timers - 1 ELSE timers
    /\ io' = NoIO
    /\ UNCHANGED <<userdata, init_ret, modified, subscription, filename, due_in,
                   subscribers, queued, default_name, registry, files, burst,
                   flushes, stale, frees, since_write>>

\* The main loop calls it for a time event of the module that is due.
time_cb ==
    /\ timers > 0 /\ due_in = 0
    /\ \E res \in WriteResults :
         LET s == save(modified, BothNames, res)
         IN /\ Saved(s, <<"save", "time_free">>)
            /\ modified' = s.modified
    /\ time_event' = FALSE              \* time_free, u->time_event = NULL
    /\ timers' = IF time_event THEN timers - 1 ELSE timers
    /\ UNCHANGED <<userdata, init_ret, subscription, filename, due_in,
                   subscribers, queued, default_name, registry, frees>>

\* ---- subscribe_cb --------------------------------------------------------
\* (mutant of subscribe_cb: a time event is created on every change event)
subscribe_cb_rearm ==
    /\ subscribers > 0 /\ queued > 0
    /\ queued' = queued - 1
    /\ modified' = TRUE
    /\ time_event' = TRUE
    /\ due_in' = DEFAULT_SAVE_INTERVAL
    /\ timers' = timers + 1
    /\ burst' = burst + 1
    /\ flushes' = 0
    /\ stale' = Class
    /\ io' = NoIO
    /\ UNCHANGED <<userdata, init_ret, subscription, filename, subscribers,
                   default_name, registry, files, frees, since_write>>

\* (mutant of subscribe_cb: a change event moves the pending time event on)
subscribe_cb_slide ==
    /\ subscribers > 0 /\ queued > 0
    /\ queued' = queued - 1
    /\ modified' = TRUE
    /\ time_event' = TRUE
    /\ due_in' = DEFAULT_SAVE_INTERVAL
    /\ timers' = IF time_event THEN timers ELSE timers + 1
    /\ burst' = burst + 1
    /\ flushes' = 0
    /\ stale' = Class
    /\ io' = NoIO
    /\ UNCHANGED <<userdata, init_ret, subscription, filename, subscribers,
                   default_name, registry, files, frees, since_write>>

\* (mutant of subscribe_cb: the time event is set a second early)
subscribe_cb_short ==
    /\ subscribers > 0 /\ queued > 0
    /\ queued' = queued - 1
    /\ modified' = TRUE
    /\ IF ~time_event
       THEN /\ time_event' = TRUE
            /\ due_in' = DEFAULT_SAVE_INTERVAL - 1
            /\ timers' = timers + 1
       ELSE UNCHANGED <<time_event, due_in, timers>>
    /\ burst' = burst + 1
    /\ flushes' = 0
    /\ stale' = Class
    /\ io' = NoIO
    /\ UNCHANGED <<userdata, init_ret, subscription, filename, subscribers,
                   default_name, registry, files, frees, since_write>>

\* The core calls it for a queued server event while the subscription exists.
subscribe_cb ==
    /\ subscribers > 0 /\ queued > 0
    /\ queued' = queued - 1
    /\ modified' = TRUE
    /\ IF ~time_event
       THEN /\ time_event' = TRUE       \* time_new, at now + the interval
            /\ due_in' = DEFAULT_SAVE_INTERVAL
            /\ timers' = timers + 1
       ELSE UNCHANGED <<time_event, due_in, timers>>
    /\ burst' = burst + 1
    /\ flushes' = 0
    /\ stale' = Class
    /\ io' = NoIO
    /\ UNCHANGED <<userdata, init_ret, subscription, filename, subscribers,
                   default_name, registry, files, frees, since_write>>

\* ---- pa__done ------------------------------------------------------------
\* (mutant of DoneCalls: unsubscribe, free the time event, then save)
DoneCalls_save_last(sub, te) ==
    (IF sub THEN <<"pa_subscription_free">> ELSE <<>>)
    \o (IF te THEN <<"time_free">> ELSE <<>>)
    \o <<"save", "pa_xfree">>

\* The calls of pa__done past its NULL test, in the order it makes them.
DoneCalls(sub, te) ==
    <<"save">>
    \o (IF sub THEN <<"pa_subscription_free">> ELSE <<>>)
    \o (IF te THEN <<"time_free">> ELSE <<>>)
    \o <<"pa_xfree">>

\* (mutant of Done: the pending time event is not freed)
Done_keep_timer(mod, sub, te, fn, res) ==
    /\ Saved(save(mod, fn, res), DoneCalls(sub, te))
    /\ subscribers' = IF sub /\ subscribers > 0 THEN subscribers - 1 ELSE subscribers
    /\ frees' = [r \in Resource |->
                   frees[r] + (CASE r = "subscription" -> IF sub THEN 1 ELSE 0
                                 [] r = "time_event" -> 0
                                 [] r = "userdata" -> 1)]
    /\ queued' = IF sub THEN 0 ELSE queued
    /\ userdata' = "freed"
    /\ modified' = FALSE /\ time_event' = FALSE /\ subscription' = FALSE
    /\ UNCHANGED <<timers, due_in>>

\* The body of pa__done past its NULL test, on the field values it reads.
Done(mod, sub, te, fn, res) ==
    /\ Saved(save(mod, fn, res), DoneCalls(sub, te))
    /\ subscribers' = IF sub /\ subscribers > 0 THEN subscribers - 1 ELSE subscribers
    /\ timers' = IF te /\ timers > 0 THEN timers - 1 ELSE timers
    /\ frees' = [r \in Resource |->
                   frees[r] + (CASE r = "subscription" -> IF sub THEN 1 ELSE 0
                                 [] r = "time_event" -> IF te THEN 1 ELSE 0
                                 [] r = "userdata" -> 1)]
    /\ queued' = IF sub THEN 0 ELSE queued
    /\ userdata' = "freed"              \* pa_xfree(u); m->userdata keeps pointing at it
    /\ modified' = FALSE /\ time_event' = FALSE /\ subscription' = FALSE
    /\ due_in' = 0

pa__done ==
    /\ userdata = "live"
    /\ \E res \in WriteResults :
         Done(modified, subscription, time_event, BothNames, res)
    /\ filename' = [c \in Class |-> IF filename[c] = "null" THEN "null" ELSE "freed"]
    /\ UNCHANGED <<init_ret, default_name, registry>>

\* pa__done called again: m->userdata is not NULL, so the body runs on the
\* freed struct; what it reads from it is anything.
pa__done_again ==
    /\ userdata = "freed"
    /\ frees["userdata"] < MaxDone
    /\ \E mod \in BOOLEAN, sub \in BOOLEAN, te \in BOOLEAN,
          fn \in [Class -> BOOLEAN], res \in WriteResults :
         Done(mod, sub, te, fn, res)
    /\ UNCHANGED <<init_ret, default_name, registry, filename>>

\* ---- pa__init ------------------------------------------------------------
\* path[c]: pa_state_path resolved the class's slot.  The source path is
\* asked for only when the sink path resolved.
Resolved(path) == {c \in Class : path["sink"] /\ (c = "sink" \/ path["source"])}

\* (mutant of init_fail: -1 is returned without the teardown)
init_fail_leak(path) ==
    /\ userdata' = "live"
    /\ filename' = [c \in Class |-> IF c \in Resolved(path) THEN "set" ELSE "null"]
    /\ init_ret' = "fail"
    /\ io' = NoIO
    /\ UNCHANGED <<modified, time_event, subscription, due_in, timers,
                   subscribers, queued, default_name, files, burst, flushes,
                   stale, frees, since_write>>

\* The fail: label, pa__done(m) on the half built struct and return -1.
init_fail(path) ==
    /\ Done(FALSE, FALSE, FALSE,
            [c \in Class |-> c \in Resolved(path)],
            [c \in Class |-> "ok"])
    /\ filename' = [c \in Class |-> IF c \in Resolved(path) THEN "freed" ELSE "null"]
    /\ init_ret' = "fail"
    /\ UNCHANGED default_name

\* The classes whose default load() sets with pa_namereg_set_default.
Restored(rd) ==
    {c \in Class : default_name[c] = NULL /\ load(c, rd[c]).name # NULL}

\* (mutant of init_ok: the subscription is registered before load() runs)
init_ok_subscribe_first(rd) ==
    /\ filename' = [c \in Class |-> "set"]
    /\ subscription' = TRUE
    /\ subscribers' = subscribers + 1
    /\ default_name' = [c \in Class |-> load(c, rd[c]).name]
    /\ queued' = pa_subscription_post(queued, subscribers + 1,
                                       Cardinality(Restored(rd)))
    /\ io' = [NoIO EXCEPT !.opened = {c \in Class : load(c, rd[c]).opened},
                          !.failed = {c \in Class : load(c, rd[c]).failed}]
    /\ userdata' = "live"
    /\ init_ret' = "ok"
    /\ UNCHANGED <<modified, time_event, due_in, timers, files, burst,
                   flushes, stale, frees, since_write>>

\* pa__init with both paths resolved: load(), whose pa_namereg_set_default
\* calls post their server events, then pa_subscription_new, then return 0.
init_ok(rd) ==
    /\ filename' = [c \in Class |-> "set"]
    /\ default_name' = [c \in Class |-> load(c, rd[c]).name]
    /\ queued' = pa_subscription_post(queued, subscribers,
                                       Cardinality(Restored(rd)))
    /\ io' = [NoIO EXCEPT !.opened = {c \in Class : load(c, rd[c]).opened},
                          !.failed = {c \in Class : load(c, rd[c]).failed}]
    /\ subscription' = TRUE   \* pa_subscription_new
    /\ subscribers' = subscribers + 1
    /\ userdata' = "live"
    /\ init_ret' = "ok"
    /\ UNCHANGED <<modified, time_event, due_in, timers, files, burst,
                   flushes, stale, frees, since_write>>

pa__init ==
    /\ userdata = "null"
    /\ \E path \in [Class -> BOOLEAN], rd \in [Class -> {"ok", "err"}] :
         IF path["sink"] /\ path["source"]
         THEN init_ok(rd)
         ELSE init_fail(path)
    /\ UNCHANGED registry

\* ---- the host ------------------------------------------------------------
\* The default of a class changes (pa_namereg_set_default); the core posts a
\* server event, queued for the subscriptions that exist.
HostSetDefault ==
    /\ userdata = "live"
    /\ queued + burst < MaxBurst
    /\ \E c \in Class, n \in MaybeName :
         default_name' = [default_name EXCEPT ![c] = n]
    /\ queued' = pa_subscription_post(queued, subscribers, 1)
    /\ io' = NoIO
    /\ UNCHANGED <<userdata, init_ret, modified, time_event, subscription,
                   filename, due_in, timers, subscribers, registry, files,
                   burst, flushes, stale, frees, since_write>>

\* A second passes while a time event is pending and not yet due.  The time
\* that passes with none pending is not counted: a change event may follow a
\* write at once, and since_write is the least time the write can be back.
Tick ==
    /\ userdata = "live"
    /\ time_event /\ due_in > 0
    /\ due_in' = due_in - 1
    /\ since_write' = [c \in Class |->
                         IF since_write[c] < DEFAULT_SAVE_INTERVAL
                         THEN since_write[c] + 1 ELSE since_write[c]]
    /\ io' = NoIO
    /\ UNCHANGED <<userdata, init_ret, modified, time_event, subscription,
                   filename, timers, subscribers, queued, default_name,
                   registry, files, burst, flushes, stale, frees>>

\* What a new daemon process starts with: its configuration may name defaults
\* (set-default-sink), its registry holds the devices present.
Fresh ==
    /\ userdata = "null" /\ init_ret = "none"
    /\ modified = FALSE /\ time_event = FALSE /\ subscription = FALSE
    /\ filename = [c \in Class |-> "null"]
    /\ due_in = 0 /\ timers = 0 /\ subscribers = 0 /\ queued = 0
    /\ io = NoIO
    /\ burst = 0 /\ flushes = 0 /\ stale = {}
    /\ frees = [r \in Resource |-> 0]
    /\ since_write = [c \in Class |-> NeverWritten]
    /\ default_name \in [Class -> MaybeName]
    /\ registry \in [Class -> SUBSET Names]

\* The daemon process ends after the teardown: its memory is gone, the slot
\* files stay.
HostExit ==
    /\ userdata = "freed"
    /\ userdata' = "gone" /\ init_ret' = "none"
    /\ modified' = FALSE /\ time_event' = FALSE /\ subscription' = FALSE
    /\ filename' = [c \in Class |-> "null"]
    /\ due_in' = 0 /\ timers' = 0 /\ subscribers' = 0 /\ queued' = 0
    /\ io' = NoIO
    /\ burst' = 0 /\ flushes' = 0 /\ stale' = {}
    /\ frees' = [r \in Resource |-> 0]
    /\ since_write' = [c \in Class |-> NeverWritten]
    /\ default_name' = [c \in Class |-> NULL]
    /\ registry' = [c \in Class |-> {}]
    /\ UNCHANGED files

\* The daemon starts again; the slot files are what the last run left.
HostRestart ==
    /\ userdata = "gone"
    /\ userdata' = "null" /\ init_ret' = "none"
    /\ modified' = FALSE /\ time_event' = FALSE /\ subscription' = FALSE
    /\ filename' = [c \in Class |-> "null"]
    /\ due_in' = 0 /\ timers' = 0 /\ subscribers' = 0 /\ queued' = 0
    /\ io' = NoIO
    /\ burst' = 0 /\ flushes' = 0 /\ stale' = {}
    /\ frees' = [r \in Resource |-> 0]
    /\ since_write' = [c \in Class |-> NeverWritten]
    /\ default_name' \in [Class -> MaybeName]
    /\ registry' \in [Class -> SUBSET Names]
    /\ UNCHANGED files

Init ==
    /\ Fresh
    /\ files = [c \in Class |-> NoFile]

\* The steps of one run of the daemon but the teardown calls.
Running ==
    \/ pa__init
    \/ subscribe_cb
    \/ time_cb
    \/ HostSetDefault
    \/ Tick

\* The module framework calls pa__done once per load; the daemon may start
\* again afterwards.
Next ==
    \/ Running
    \/ pa__done
    \/ HostExit
    \/ HostRestart

Spec == Init /\ [][Next]_vars

\* One run under a framework that tears the module down more than once.
NextRedone ==
    \/ Running
    \/ pa__done
    \/ pa__done_again

SpecRedone == Init /\ [][NextRedone]_vars

\* One run under a main loop that keeps its clock going and calls a time
\* event that is due, for as long as the module is loaded.  Nothing obliges
\* the host to change a default, to deliver a queued event or to unload the
\* module.
NextLive ==
    \/ Running
    \/ pa__done

SpecLive == Init /\ [][NextLive]_vars /\ WF_vars(Tick) /\ WF_vars(time_cb)

\* ---- properties ----------------------------------------------------------

\* What a slot holds after a successful write of the class's current default.
Expected(c) ==
    IF default_name[c] = NULL THEN File(<<"\n">>)
    ELSE File(default_name[c] \o <<"\n">>)

\* C1 (debounce coalescing): while a time event is pending, no step but its
\* firing saves or changes a slot, however many change events arrive; the
\* firing runs save() once, covering all of them, attempts each slot once and
\* every slot it writes holds the class's default as it is at that moment.
C1_Coalescing ==
    [][(userdata = "live" /\ time_event /\ userdata' = "live") =>
         IF time_event'
         THEN files' = files /\ ~io'.saved /\ io'.wrote = {}
         ELSE /\ io'.saved /\ io'.events >= 1
              /\ io'.wrote \cup io'.failed = Class
              /\ \A c \in Class :
                   files'[c] = IF c \in io'.wrote THEN Expected(c) ELSE files[c]]_vars

\* Two change events (the default went to one name, then to another) were
\* covered by the one save the timer made.
C1_Witness ==
    /\ userdata = "live" /\ ~time_event
    /\ io.saved /\ io.events >= 2 /\ io.wrote = Class
    /\ files["sink"] = File(<<"a", "b", "\n">>)

\* C2 (durability at shutdown): pa__done called with a change observed and the
\* time event still pending runs save(); when no write fails, every slot then
\* holds the class's default as it is at that moment.
C2_ShutdownFlush ==
    [][(userdata = "live" /\ userdata' = "freed" /\ modified /\ time_event) =>
         /\ io'.saved
         /\ io'.failed = {} => \A c \in Class : files'[c] = Expected(c)]_vars

C2_Witness ==
    /\ userdata = "freed" /\ init_ret = "ok"
    /\ io.saved /\ io.failed = {} /\ io.events >= 1
    /\ frees["time_event"] = 1
    /\ files["sink"] = File(<<"a", "\n">>)
    /\ files["source"] = File(<<"\n">>)

\* C3 (override precedence): pa__init opens the slot of no class whose default
\* is already configured and leaves that default as it is, whatever the slot
\* holds and whatever happens to the other class.
C3_Override ==
    [][(userdata = "null" /\ userdata' # "null") =>
         \A c \in Class :
           default_name[c] # NULL =>
             c \notin io'.opened /\ default_name'[c] = default_name[c]]_vars

\* The sink default is configured and kept although the slot names another
\* registered sink; the source default was restored from its slot.
C3_Witness ==
    /\ userdata = "live" /\ init_ret = "ok"
    /\ io.opened = {"source"}
    /\ default_name["sink"] = <<"a">>
    /\ files["sink"] = File(<<"a", "b", "\n">>)
    /\ <<"a", "b">> \in registry["sink"]
    /\ files["source"] = File(<<"a", "\n">>)
    /\ default_name["source"] = <<"a">>

\* C4 (round trip): a slot holding what save() wrote for name X, read by a
\* pa__init whose load() opens it, with no configured default for the class
\* and X registered for the class, makes X the class's default.
C4_RoundTrip ==
    [][(userdata = "null" /\ userdata' = "live") =>
         \A c \in Class : \A x \in Names :
           ( /\ files[c] = File(x \o <<"\n">>)
             /\ default_name[c] = NULL
             /\ x \in registry[c]
             /\ c \notin io'.failed )
           => default_name'[c] = x]_vars

C4_Witness ==
    /\ userdata = "live" /\ init_ret = "ok"
    /\ "sink" \in io.opened /\ "sink" \notin io.failed
    /\ files["sink"] = File(<<"a", "b", "\n">>)
    /\ default_name["sink"] = <<"a", "b">>

\* The first line of a slot file, without its line end.
FirstLine(d) ==
    IF \E i \in 1..Len(d) : d[i] \in {"\n", "\r"}
    THEN SubSeq(d, 1, (CHOOSE i \in 1..Len(d) :
                          /\ d[i] \in {"\n", "\r"}
                          /\ \A j \in 1..(i-1) : d[j] \notin {"\n", "\r"}) - 1)
    ELSE d

\* C5 (stale reference): when pa__init reads from a slot a name that is not
\* registered for the class, the class gets no default, pa__init returns
\* success with the subscription registered, and the slot is left as it is.
C5_Stale ==
    [][(userdata = "null" /\ userdata' # "null") =>
         \A c \in Class :
           ( /\ c \in io'.opened /\ c \notin io'.failed
             /\ files[c].exists
             /\ FirstLine(files[c].data) # <<>>
             /\ FirstLine(files[c].data) \notin registry[c] )
           => /\ default_name'[c] = NULL
              /\ userdata' = "live" /\ init_ret' = "ok"
              /\ subscription' /\ subscribers' = 1
              /\ files'[c] = files[c]]_vars

C5_Witness ==
    /\ userdata = "live" /\ init_ret = "ok" /\ subscribers = 1
    /\ "sink" \in io.opened /\ "sink" \notin io.failed
    /\ files["sink"] = File(<<"a", "\n">>)
    /\ <<"a">> \notin registry["sink"]
    /\ default_name["sink"] = NULL

\* C6 (missing file): when load() runs for a class with no configured default
\* and no slot file, that is no failure: the class gets no default, the file
\* is not created, and pa__init returns success.
C6_MissingFile ==
    [][(userdata = "null" /\ userdata' # "null") =>
         \A c \in Class :
           (c \in io'.opened /\ ~files[c].exists)
           => /\ c \notin io'.failed
              /\ default_name'[c] = NULL
              /\ ~files'[c].exists
              /\ userdata' = "live" /\ init_ret' = "ok"]_vars

C6_Witness ==
    /\ userdata = "live" /\ init_ret = "ok"
    /\ "sink" \in io.opened /\ "sink" \notin io.failed
    /\ ~files["sink"].exists
    /\ registry["sink"] = Names
    /\ default_name["sink"] = NULL

\* C7 (flush gated by the flag): a step that calls save() on the live module
\* (the timer firing, pa__done) runs its body exactly when u->modified is set
\* and leaves the flag clear; with the flag clear, and so on a second call with
\* no change event in between, it writes nothing.  No other step saves.
C7_FlushGated ==
    [][IF userdata = "live" /\ (userdata' = "freed" \/ (time_event /\ ~time_event'))
       THEN /\ io'.saved <=> modified
            /\ ~modified => (files' = files /\ io'.wrote = {})
            /\ flushes >= 1 => (~io'.saved /\ files' = files)
            /\ userdata' = "live" => ~modified'
       ELSE ~io'.saved /\ files' = files]_vars

\* The timer saved, no change event followed, and pa__done's save() did nothing.
C7_Witness ==
    /\ userdata = "freed" /\ init_ret = "ok"
    /\ flushes = 2 /\ ~io.saved
    /\ files["sink"].exists

\* C8 (one timer): the main loop never holds more than one time event of the
\* module, and while the module is loaded it holds one exactly when
\* u->time_event is set.
C8_OneTimer ==
    /\ timers \in {0, 1}
    /\ userdata = "live" => (time_event <=> timers = 1)

\* A change event arrived with the timer pending, and one after it had fired.
C8_Witness ==
    /\ userdata = "live" /\ timers = 1
    /\ burst >= 2
    /\ files["sink"].exists

\* C9 as stated (DirtyFlag tracks unsaved changes): the flag is set whenever
\* some class has a change event seen and no write of its slot since, and is
\* clear right after a save that left no such class.
C9_DirtyTracksUnsaved ==
    userdata = "live" =>
      /\ stale # {} => modified
      /\ (io.saved /\ stale = {}) => ~modified

\* C9 (DirtyFlag tracks change events since the last save attempt): the flag
\* is set exactly when a change event was delivered since the last call of
\* save(); every save attempt clears it, one whose write failed too.
C9_DirtyTracksEvents ==
    userdata = "live" => (modified <=> burst >= 1)

\* A save whose write of the sink slot failed left the flag clear.
C9_Witness ==
    /\ userdata = "live"
    /\ io.saved /\ "sink" \in io.failed
    /\ ~modified /\ "sink" \in stale

\* C10 (teardown is idempotent): in one run pa__done releases the
\* subscription, the time event and the state object at most once each.
C10_ReleasedOnce ==
    \A r \in Resource : frees[r] <= 1

\* C11 (fail-fast initialization): when pa_state_path fails for a slot,
\* pa__init returns failure after pa__done has released the state object;
\* no slot was opened or written, no default was changed, and neither a
\* subscription nor a time event of the module exists.
C11_FailFast ==
    [][(userdata = "null" /\ userdata' # "null"
          /\ \E c \in Class : filename'[c] = "null") =>
         /\ init_ret' = "fail"
         /\ userdata' = "freed" /\ frees'["userdata"] = 1
         /\ io'.opened = {} /\ ~io'.saved /\ io'.wrote = {}
         /\ default_name' = default_name
         /\ files' = files
         /\ ~subscription' /\ subscribers' = 0 /\ queued' = 0
         /\ ~time_event' /\ timers' = 0]_vars

\* The sink path resolved, the source path did not, with a slot file and a
\* registered name that a load() would have restored.
C11_Witness ==
    /\ init_ret = "fail" /\ userdata = "freed"
    /\ filename = [c \in Class |-> IF c = "sink" THEN "freed" ELSE "null"]
    /\ files["sink"] = File(<<"a", "\n">>)
    /\ <<"a">> \in registry["sink"]
    /\ default_name["sink"] = NULL

\* C12 (nothing fires after pa__done): once pa__done has returned, the core
\* holds no subscription and the main loop no time event of the module, so
\* neither subscribe_cb nor time_cb can be called (and with them no save()),
\* whatever state pa__done was called in.
C12_QuietAfterDone ==
    userdata = "freed" =>
      /\ subscribers = 0 /\ timers = 0 /\ queued = 0
      /\ ~ENABLED subscribe_cb
      /\ ~ENABLED time_cb

\* pa__done was called with the timer pending and the flag set.
C12_Witness ==
    /\ userdata = "freed" /\ init_ret = "ok"
    /\ frees["subscription"] = 1 /\ frees["time_event"] = 1
    /\ io.saved /\ io.failed = Class

\* C13 (no sliding window): a change event delivered while a time event is
\* pending sets the flag and leaves the time event and the time it is set for
\* alone; the time event is created DEFAULT_SAVE_INTERVAL seconds ahead by
\* the first change event after a flush, and from then on its remaining time
\* only runs down with the clock.
C13_NoSliding ==
    [][(userdata = "live" /\ userdata' = "live") =>
         /\ (time_event /\ queued' = queued - 1) =>
               /\ modified' /\ time_event'
               /\ due_in' = due_in /\ timers' = timers
         /\ (~time_event /\ time_event') => due_in' = DEFAULT_SAVE_INTERVAL
         /\ (time_event /\ time_event') => due_in' \in {due_in, due_in - 1}]_vars

\* Two change events since the last flush, the second one with the timer
\* pending; the timer is due all the same.
C13_Witness ==
    /\ userdata = "live" /\ time_event /\ modified
    /\ burst >= 2 /\ queued = 0
    /\ due_in = 0

\* C14 (idle after the timer fired): the step in which the timer's save()
\* ran leaves no time event behind, whether its writes succeeded or failed;
\* and the next change event, delivered with no time event pending, creates
\* one DEFAULT_SAVE_INTERVAL seconds ahead.
C14_IdleAfterFire ==
    [][(userdata = "live" /\ userdata' = "live") =>
         /\ io'.saved => (~time_event' /\ timers' = 0 /\ ~modified')
         /\ (~time_event /\ queued' = queued - 1) =>
               /\ time_event' /\ timers' = 1
               /\ due_in' = DEFAULT_SAVE_INTERVAL]_vars

\* Both writes of the timer's save() failed; no time event is left and a
\* change event waits to be delivered.
C14_Witness ==
    /\ userdata = "live"
    /\ io.saved /\ io.failed = Class
    /\ ~time_event /\ timers = 0
    /\ queued >= 1

\* C15 (partial failure): a save() of the live module that finds the flag set
\* tries to open both slots, writes the current default into each one that
\* opens whatever happened to the other, and clears the flag even when one or
\* both failed; until the next change event is delivered nothing is saved
\* again.
C15_PartialFailure ==
    [][userdata = "live" =>
         /\ (modified /\ (userdata' = "freed" \/ (time_event /\ ~time_event'))) =>
               /\ io'.saved
               /\ io'.wrote \cup io'.failed = Class
               /\ io'.wrote \cap io'.failed = {}
               /\ \A c \in Class :
                    files'[c] = IF c \in io'.wrote THEN Expected(c) ELSE files[c]
               /\ userdata' = "live" => ~modified'
         /\ burst = 0 => (~io'.saved /\ files' = files)]_vars

\* The sink slot failed to open, the source slot was written, the flag is
\* clear.
C15_Witness ==
    /\ userdata = "live"
    /\ io.saved /\ io.failed = {"sink"} /\ io.wrote = {"source"}
    /\ ~modified /\ ~time_event
    /\ files["source"] = File(<<"a", "\n">>)
    /\ ~files["sink"].exists

C17_WriteSpacing ==
    [][\A c \in Class :
         c \in io'.wrote => since_write[c] >= DEFAULT_SAVE_INTERVAL]_vars

\* C17 (write frequency bound, amended): whenever time_cb writes a slot, the
\* slot's previous write in this run, if any, is at least
\* DEFAULT_SAVE_INTERVAL seconds back; a write that follows the previous one
\* sooner is the final flush of pa__done, made with a change event delivered
\* since that previous write.
C17_TimerWriteSpacing ==
    [][\A c \in Class :
         /\ (c \in io'.wrote /\ userdata' = "live") =>
               since_write[c] >= DEFAULT_SAVE_INTERVAL
         /\ (c \in io'.wrote /\ since_write[c] < DEFAULT_SAVE_INTERVAL) =>
               (userdata = "live" /\ userdata' = "freed" /\ modified /\ burst > 0)]_vars

\* time_cb has just written a slot that this run had written before.
C17_Witness ==
    /\ userdata = "live"
    /\ io.saved /\ "sink" \in io.rewrote
    /\ since_write["sink"] = 0

\* C18 (eventual save): under SpecLive, once subscribe_cb has run for a
\* change event (the module is loaded and u->modified is set), a save() call
\* that gets past its guard follows, made by time_cb or by pa__done.
C18_EventualSave ==
    (userdata = "live" /\ modified /\ burst > 0) ~> io.saved

\* time_cb has just saved what one change event left unsaved.
C18_Witness ==
    /\ userdata = "live" /\ subscription
    /\ io.saved /\ io.events = 1 /\ io.wrote = Class
    /\ ~modified /\ ~time_event /\ queued = 0

\* a is not called after b in the sequence of calls.
Before(calls, a, b) ==
    \A i, j \in DOMAIN calls : (calls[i] = a /\ calls[j] = b) => i < j

\* C19 as claimed (teardown order): pa__done frees the subscription, then
\* frees the time event, then calls save(), then releases the struct.
C19_SaveAfterCancel ==
    [][(userdata = "live" /\ userdata' = "freed") =>
         /\ Before(io'.calls, "pa_subscription_free", "time_free")
         /\ Before(io'.calls, "pa_subscription_free", "save")
         /\ Before(io'.calls, "time_free", "save")
         /\ Before(io'.calls, "save", "pa_xfree")]_vars

\* C19 (teardown order, amended): pa__done calls save() first, which writes
\* only if u->modified is set, then frees the subscription, then frees the
\* time event if one is pending, and releases the struct last.
C19_SaveFirst ==
    [][(userdata = "live" /\ userdata' = "freed") =>
         /\ io'.calls[1] = "save"
         /\ io'.calls[Len(io'.calls)] = "pa_xfree"
         /\ Before(io'.calls, "save", "pa_subscription_free")
         /\ Before(io'.calls, "pa_subscription_free", "time_free")
         /\ Before(io'.calls, "time_free", "pa_xfree")
         /\ subscription =>
               \E i \in DOMAIN io'.calls : io'.calls[i] = "pa_subscription_free"
         /\ time_event <=>
               \E i \in DOMAIN io'.calls : io'.calls[i] = "time_free"
         /\ io'.saved <=> modified]_vars

\* A teardown with a time event pending: all four calls were made.
C19_Witness ==
    /\ userdata = "freed" /\ init_ret = "ok"
    /\ io.saved
    /\ io.calls = <<"save", "pa_subscription_free", "time_free", "pa_xfree">>

\* C20 (implicit invariant): between the callbacks of a loaded module a time
\* event is pending exactly when u->modified is set, and the main loop holds
\* a time event of the module only then: none is called with the flag clear,
\* so the save() of every time_cb call gets past its guard.
C20_TimerIffDirty ==
    /\ userdata = "live" => (time_event <=> modified)
    /\ userdata = "live" => timers = (IF modified THEN 1 ELSE 0)
    /\ timers > 0 => (userdata = "live" /\ modified)

\* A time event is due with the flag set: time_cb is about to save.
C20_Witness ==
    /\ userdata = "live" /\ init_ret = "ok"
    /\ time_event /\ modified
    /\ timers = 1 /\ due_in = 0

====
